---- MODULE Spec2Model ----
(***************************************************************************)
(* TLS credential hot-reload core of the proxy                             *)
(* (proxy/src/transport/tls/config.rs).                                    *)
(*                                                                         *)
(* Processes of the model:                                                 *)
(*   - an external writer that creates, rewrites and deletes the three     *)
(*     credential files;                                                   *)
(*   - the path watcher (fs_watch::stream_changes), which turns disk       *)
(*     changes into content-free ticks;                                    *)
(*   - the background future built by watch_for_config_changes: for each   *)
(*     tick it runs CommonConfig::load_from_disk (three separate file      *)
(*     reads, then the consistency check) and, on success, the fold step   *)
(*     (client_store.store, then server_store.store);                      *)
(*   - subscribers holding clones of client_watch / server_watch, which    *)
(*     read the slots and drop their handles.                              *)
(*                                                                         *)
(* The returned future is `Box<Future + Send>` and the two slots are two   *)
(* independent Watch cells, each behind its own lock: a subscriber on      *)
(* another thread can run between any two slot operations of the fold      *)
(* step, and the external writer can run between any two file reads.       *)
(***************************************************************************)
EXTENDS Integers, Sequences, FiniteSets, TLC

\* ------------------------------------------------------------- bounds
\* Number of ticks the watcher may emit in a behaviour.
MaxTicks == 3

\* ------------------------------------------------------ files on disk
\* CommonSettings::paths: the three watched paths.
paths == <<"trust_anchors", "end_entity_cert", "private_key">>

Files == {paths[i] : i \in 1..3}

Missing == "missing"

\* Contents of the trust anchors file (PEM):
\*   "empty"   no CERTIFICATE block at all (an empty file, or other text)
\*   "badpem"  a CERTIFICATE block that pemfile::certs cannot decode
\*   "badta"   a decodable block that is not usable as a trust anchor
\*   "caA", "caB"  one certificate of CA A, resp. CA B
TrustAnchorContents == {"empty", "badpem", "badta", "caA", "caB"}

\* Contents of the end-entity certificate file (DER):
\*   "junk"   not a certificate
\*   "eeA1"   issued by CA A for public key 1
\*   "eeB2"   issued by CA B for public key 2
EndEntityContents == {"junk", "eeA1", "eeB2"}

\* Contents of the private key file (PKCS#8 DER):
\*   "junk"   not a key;  "k1", "k2"  the private keys of public keys 1, 2
PrivateKeyContents == {"junk", "k1", "k2"}

Contents(f) ==
    CASE f = "trust_anchors"   -> TrustAnchorContents
      [] f = "end_entity_cert" -> EndEntityContents
      [] f = "private_key"     -> PrivateKeyContents

\* -------------------------------------------------------------- slots
Slots == {"client", "server"}

\* Handles on a slot: "w1" is a subscriber that reads, "w2" a clone held by
\* another consumer.
Handles == {"w1", "w2"}

NoBundle == <<>>

\* A slot value carries no resolver (absent, or the placeholder ClientConfig).
NoResolver == <<>>

\* The Arc<CertResolver> built by the load attempt of generation gen.
ResolverOf(gen) == <<gen>>

\* rustls::ServerConfig::new: the protocol versions enabled by default.
DefaultVersions == {"TLSv1_3", "TLSv1_2"}

\* Watch::new(None): the initial value of a slot.
Absent ==
    [present |-> FALSE, gen |-> 0, tick |-> 0, bundle |-> NoBundle,
     resolver |-> NoResolver, versions |-> {}, client_auth |-> "none"]

VARIABLES
    settings,       \* "some": watch_for_config_changes(Some(..)); "none":
                    \* watch_for_config_changes(None); "no_tls": ServerConfig::no_tls
    disk,           \* [Files -> contents or Missing]
    dirty,          \* watcher: a watched path changed since the last tick
    ticks,          \* ticks emitted by the watcher and not yet consumed
    nextTick,       \* id of the next tick the watcher emits
    pc,             \* position of the background future
    cur,            \* id of the tick being processed
    trust_anchors,  \* load_from_disk: the parsed trust anchors
    end_entity_cert,\* load_from_disk: the bytes read from the certificate file
    config,         \* the CommonConfig yielded by stream_changes
    generation,     \* number of items stream_changes has yielded
    lastResult,     \* result of the last completed load attempt
    loads,          \* number of load attempts started
    successes,      \* number of load attempts that returned Ok
    created,        \* the files that have existed at some moment
    ticksAfterDrop, \* ticks taken up after every handle of both slots was dropped
    client_slot,    \* value of the client Watch
    server_slot,    \* value of the server Watch
    watchers,       \* [Slots -> SUBSET Handles]: live Watch handles
    seen,           \* [Slots -> slot value]: what subscriber w1 last read
    backend,        \* fs_watch: "polling" or "inotify"
    layout,         \* how the watched paths reach their files
    present,        \* [Files -> BOOLEAN]: the watched path exists (file or symlink)
    inode,          \* [Files -> Nat]: inode of the file the path resolves to
    mtime,          \* [Files -> Nat]: modification time of that file
    clock,          \* filesystem time: number of changes made so far
    polled,         \* polling: the tuple remembered for each path
    pending,        \* inotify: kernel events not yet turned into a tick
    unticked,       \* paths that appeared since the last tick
    modified,       \* paths whose file was modified since the last tick
    overlapped,     \* some change was made before the previous one was ticked
    removed,        \* paths that were removed since the last tick
    goneTicks,      \* ids of the ticks emitted for disappearances only
    data,           \* the directory the `data` symlink points to, or "none"
    retargeted,     \* the `data` symlink was retargeted since the last tick
    denied,         \* paths whose stat and open fail with a permission error
    erred,          \* the backend has met an I/O or permission error
    reader,         \* load_file_contents: one call, step by step
    outcome,        \* what the background future resolved with, and why
    rotatedAt       \* the generation published when `data` was last retargeted
                    \* with the pipeline at rest (-1: no such retargeting, or
                    \* another change was made since)

vars == <<settings, disk, dirty, ticks, nextTick, pc, cur, trust_anchors,
          end_entity_cert, config, generation, lastResult, loads,
          successes, created, ticksAfterDrop, client_slot, server_slot,
          watchers, seen, backend, layout, present, inode, mtime, clock,
          polled, pending, unticked, modified, overlapped, removed, goneTicks,
          data, retargeted, rotatedAt, denied, erred, reader, outcome>>

fsVars   == <<backend, layout, present, inode, mtime, clock, polled, pending,
              unticked, modified, overlapped, removed, goneTicks, data,
              retargeted, rotatedAt, denied, erred, reader>>
diskVars == <<disk, dirty, created, fsVars, outcome>>
loadVars == <<cur, trust_anchors, end_entity_cert, config, generation,
              lastResult, loads, successes, ticksAfterDrop>>
slotVars == <<client_slot, server_slot>>
subVars  == <<watchers, seen>>

\* ------------------------------------------------------ pure functions
Ok(v)  == [ok |-> TRUE,  val |-> v,  err |-> <<>>]
Err(e) == [ok |-> FALSE, val |-> <<>>, err |-> e]

\* load_file_contents: the whole contents of the file, or Io(path, cause).
load_file_contents_first_path(d, path) ==
    IF d[path] = Missing THEN Err(<<"Io", "trust_anchors">>) ELSE Ok(d[path])

load_file_contents(d, path) ==
    IF d[path] = Missing THEN Err(<<"Io", path>>) ELSE Ok(d[path])

\* rustls::internal::pemfile::certs, as called by load_from_disk: the list of
\* CERTIFICATE blocks, or FailedToParseTrustAnchors(None) when a block cannot
\* be decoded. A file without any CERTIFICATE block yields the empty list.
pemfile_certs(contents) ==
    CASE contents = "badpem" -> Err(<<"FailedToParseTrustAnchors", "None">>)
      [] contents = "empty"  -> Ok({})
      [] OTHER               -> Ok({contents})

\* cert_der_as_trust_anchor over every certificate of the list: the set of
\* CA names, or FailedToParseTrustAnchors(Some(e)) at the first failure.
cert_der_as_trust_anchor_skip(certs) ==
    Ok({IF c = "caA" THEN "A" ELSE "B" : c \in certs \ {"badta"}})

cert_der_as_trust_anchor(certs) ==
    IF "badta" \in certs
    THEN Err(<<"FailedToParseTrustAnchors", "Some">>)
    ELSE Ok({IF c = "caA" THEN "A" ELSE "B" : c \in certs})

\* The issuer and the public key of an end-entity certificate.
Issuer(ee)    == IF ee = "eeA1" THEN "A" ELSE IF ee = "eeB2" THEN "B" ELSE "nobody"
PublicKey(ee) == IF ee = "eeA1" THEN 1 ELSE IF ee = "eeB2" THEN 2 ELSE 0
\* The public key a private key belongs to (-1: not a key).
KeyOf(k)      == IF k = "k1" THEN 1 ELSE IF k = "k2" THEN 2 ELSE -1

\* CertResolver::new: the consistency check. The certificate is validated
\* against the trust anchors first, then the private key against the
\* certificate; timeOk is the outcome of the wall-clock conversion.
CertResolver_new(anchors, ee, key, timeOk) ==
    IF ~timeOk THEN Err(<<"TimeConversionFailed">>)
    ELSE IF Issuer(ee) \notin anchors THEN Err(<<"EndEntityCertIsNotValid">>)
    ELSE IF KeyOf(key) # PublicKey(ee) THEN Err(<<"InvalidPrivateKey">>)
    ELSE Ok(<<anchors, ee, key>>)

\* stream_changes' filter_map: `.ok()` keeps the loaded value and drops the
\* error, so the stream yields an item only for a successful load.
stream_changes_yields_all(result) == TRUE

stream_changes_yields_none(result) == FALSE

stream_changes_yields(result) == result.ok

\* The item `fold` takes from the change stream: the oldest pending one.
stream_next_newest(q) == q[Len(q)]

stream_next(q) == Head(q)

\* Store::store returns an error iff all watchers have been dropped.
store_never_fails(w, slot) == FALSE

store_fails(w, slot) == w[slot] = {}

\* The values the fold step stores: Some(ClientConfig(..)), Some(ServerConfig::from(config)).
\* ClientConfig(Arc::new(())) is a placeholder: it holds the unit value, no
\* resolver and no TLS settings (gen, tick and bundle record which load the
\* store belongs to).
ClientValue(gen, tick, cfg) ==
    [present |-> TRUE, gen |-> gen, tick |-> tick, bundle |-> cfg,
     resolver |-> NoResolver, versions |-> {}, client_auth |-> "none"]

\* set_common_settings: only TLS 1.2 stays enabled.
set_common_settings_keep(versions) == versions

set_common_settings(versions) == {"TLSv1_2"}

\* ServerConfig::from: NoClientAuth, the common settings, and a clone of the
\* Arc of the resolver of the loaded CommonConfig.
ServerConfig_from_reset(gen, tick, cfg) ==
    IF gen > 1
    THEN [present |-> FALSE, gen |-> gen, tick |-> tick, bundle |-> NoBundle,
          resolver |-> NoResolver, versions |-> {}, client_auth |-> "none"]
    ELSE [present |-> TRUE, gen |-> gen, tick |-> tick, bundle |-> cfg,
          resolver |-> ResolverOf(gen),
          versions |-> set_common_settings(DefaultVersions),
          client_auth |-> "NoClientAuth"]

ServerConfig_from(gen, tick, cfg) ==
    [present |-> TRUE, gen |-> gen, tick |-> tick, bundle |-> cfg,
     resolver |-> ResolverOf(gen),
     versions |-> set_common_settings(DefaultVersions),
     client_auth |-> "NoClientAuth"]

\* The background future: not ready, or resolved. `then` (lines 178-181)
\* maps whatever the fold ended with to Ok(()).
NotReady == [ready |-> FALSE, result |-> "none", cause |-> "none"]

then_result_keep(fold_result) == fold_result

then_result(fold_result) == "Ok"

Resolved(fold_result, cause) ==
    [ready |-> TRUE, result |-> then_result(fold_result), cause |-> cause]

\* load_file_contents before it is called, and before it has returned.
NoReturn == [ok |-> FALSE, val |-> <<>>, err |-> <<>>]

IdleReader ==
    [position |-> "idle", path |-> "", exists |-> FALSE, file |-> <<>>,
     cursor |-> 0, result |-> <<>>, interrupted_at |-> <<>>,
     error_from |-> "none", last_error |-> "none", ret |-> NoReturn]

\* ---------------------------------------------------------------- Init
\* watch_for_config_changes: with settings the future starts polling the
\* change stream; without (and for ServerConfig::no_tls) it is future::ok(()).
InitialPc_always_poll(s) == "poll"

InitialPc(s) == IF s = "some" THEN "poll" ELSE "done"

\* The Watch handles handed out at construction: ServerConfig::no_tls builds
\* no client watch.
InitialWatchers(s) ==
    [slot \in Slots |-> IF s = "no_tls" /\ slot = "client" THEN {} ELSE Handles]

InitCommon ==
    /\ dirty = FALSE
    /\ outcome = IF InitialPc(settings) = "done"
                 THEN [ready |-> TRUE, result |-> "Ok", cause |-> "no_settings"]
                 ELSE NotReady
    /\ ticks = <<>>
    /\ nextTick = 1
    /\ pc = InitialPc(settings)
    /\ cur = 0
    /\ trust_anchors = {}
    /\ end_entity_cert = Missing
    /\ config = NoBundle
    /\ generation = 0
    /\ lastResult = <<"none">>
    /\ loads = 0
    /\ successes = 0
    /\ created = {f \in Files : disk[f] # Missing}
    /\ ticksAfterDrop = 0
    /\ client_slot = Absent
    /\ server_slot = Absent
    /\ watchers = InitialWatchers(settings)
    /\ seen = [slot \in Slots |-> Absent]

\* -------------------------------------------------- the external writer
\* The watcher exists only while the change stream does.
WatcherAlive == pc # "done"

\* A file is created or rewritten with contents c.
WriteFile(f, c) ==
    /\ disk' = [disk EXCEPT ![f] = c]
    /\ created' = created \cup {f}
    /\ dirty' = WatcherAlive
    /\ UNCHANGED <<settings, ticks, nextTick, pc, loadVars, slotVars, subVars, fsVars,
                   outcome>>

\* A file is deleted.
DeleteFile(f) ==
    /\ disk[f] # Missing
    /\ disk' = [disk EXCEPT ![f] = Missing]
    /\ dirty' = WatcherAlive
    /\ UNCHANGED created
    /\ UNCHANGED <<settings, ticks, nextTick, pc, loadVars, slotVars, subVars, fsVars,
                   outcome>>

\* ---------------------------------------------------------- the watcher
\* fs_watch::stream_changes: one tick once some watched path has changed;
\* changes made before the tick is emitted are coalesced into it.
WatcherTick ==
    /\ WatcherAlive
    /\ dirty
    /\ nextTick <= MaxTicks
    /\ ticks' = Append(ticks, nextTick)
    /\ nextTick' = nextTick + 1
    /\ dirty' = FALSE
    /\ UNCHANGED <<settings, disk, created, pc, loadVars, slotVars, subVars, fsVars,
                   outcome>>

\* ------------------------------------------- the watcher's two backends
\* fs_watch::stream_changes_polling and fs_watch::inotify::WatchStream, and
\* the changes the tests make to the watched paths.
Backends == {"polling", "inotify"}

\* "file": the watched paths are regular files; "symlink": symlinks to files
\* of a data directory; "double_symlink": symlinks through a data directory
\* that is itself a symlink.
Layouts == {"file", "symlink", "double_symlink"}

\* The changes the external writer makes while the watcher is observed.
MaxFsOps == 3

\* stat of a path that does not exist: exists = false.
NoStat == <<>>

\* stat following symlinks: the tuple of the file the path resolves to
\* (device and size change only together with inode and mtime here).
\* The data directories of the tests, and the directory a watched path
\* resolves into: through the `data` symlink in the double symlink layout.
DataDirs == {"real_data", "real_data_2"}

ResolvedDir == IF layout = "double_symlink" THEN data ELSE "real_data"

Stat_lstat(p) ==
    IF ~present[p] \/ p \in denied THEN NoStat
    ELSE IF layout = "file" THEN <<"real_data", inode[p], mtime[p]>>
    ELSE <<"real_data", 0, 0>>

Stat(p) ==
    IF present[p] /\ p \notin denied /\ ResolvedDir # "none"
    THEN <<ResolvedDir, inode[p], mtime[p]>>
    ELSE NoStat

\* Polling: a path has changed when its tuple differs from the remembered
\* one; a missing path is a valid state.
PollChanged_skip_missing(old, new) == old # NoStat /\ new # old

PollChanged_skip_gone(old, new) == new # NoStat /\ new # old

PollChanged(old, new) == new # old

\* The backend has a tick to emit: the next poll finds a changed tuple, or
\* kernel events were read since the last tick.
TickDue ==
    IF backend = "polling"
    THEN \E p \in Files : PollChanged(polled[p], Stat(p))
    ELSE pending > 0

\* The files File::create makes are empty.
CreatedContents(p) == IF p = "trust_anchors" THEN "empty" ELSE "junk"

\* The watcher starts: the polling backend remembers what it finds, the
\* notification backend registers its watches on paths and ancestors.
InitFs(b, l, exist) ==
    /\ backend = b
    /\ layout = l
    /\ data = "real_data"
    /\ denied = {}
    /\ erred = FALSE
    /\ reader = IdleReader
    /\ present = [p \in Files |-> exist]
    /\ inode = [p \in Files |-> 0]
    /\ mtime = [p \in Files |-> 0]
    /\ clock = 0
    /\ polled = [p \in Files |-> Stat(p)]
    /\ pending = 0
    /\ unticked = {}
    /\ modified = {}
    /\ overlapped = FALSE
    /\ removed = {}
    /\ goneTicks = {}
    /\ retargeted = FALSE
    /\ rotatedAt = -1

\* The kernel events one change raises on the watched paths and ancestors.
KernelEvents == 2

\* What every change to a watched path does: time passes, the kernel
\* notifies the notification backend (it watches paths and ancestors).
FsChange ==
    /\ clock < MaxFsOps
    /\ clock' = clock + 1
    /\ pending' = IF backend = "inotify" /\ WatcherAlive THEN KernelEvents ELSE 0
    /\ dirty' = WatcherAlive
    /\ overlapped' = (overlapped \/ dirty)
    /\ UNCHANGED <<settings, ticks, nextTick, pc, loadVars, slotVars, subVars,
                   backend, layout, polled, goneTicks, reader, outcome>>

\* A watched path appears: File::create for a regular file (a new inode),
\* symlink() to a file that exists already otherwise.
CreatePath(p) ==
    /\ ~present[p]
    /\ FsChange
    /\ UNCHANGED <<denied, erred>>
    /\ present' = [present EXCEPT ![p] = TRUE]
    /\ inode' = IF layout = "file" THEN [inode EXCEPT ![p] = clock + 1] ELSE inode
    /\ mtime' = IF layout = "file" THEN [mtime EXCEPT ![p] = clock + 1] ELSE mtime
    /\ disk' = [disk EXCEPT ![p] = CreatedContents(p)]
    /\ created' = created \cup {p}
    /\ unticked' = unticked \cup {p}
    /\ UNCHANGED <<modified, removed, data, retargeted, rotatedAt>>

\* A watched regular file is created again, with contents c.
CreatePathWith(p, c) ==
    /\ ~present[p]
    /\ FsChange
    /\ UNCHANGED <<denied, erred>>
    /\ present' = [present EXCEPT ![p] = TRUE]
    /\ inode' = [inode EXCEPT ![p] = clock + 1]
    /\ mtime' = [mtime EXCEPT ![p] = clock + 1]
    /\ disk' = [disk EXCEPT ![p] = c]
    /\ created' = created \cup {p}
    /\ unticked' = unticked \cup {p}
    /\ UNCHANGED <<modified, removed, data, retargeted, rotatedAt>>

\* write_all and sync_all on the file a watched path resolves to.
ModifyFile(p) ==
    /\ present[p]
    /\ FsChange
    /\ UNCHANGED <<denied, erred>>
    /\ mtime' = [mtime EXCEPT ![p] = clock + 1]
    /\ modified' = modified \cup {p}
    /\ UNCHANGED <<disk, created, present, inode, unticked, removed, data,
                   retargeted, rotatedAt>>

\* remove_file on a watched path.
RemovePath(p) ==
    /\ present[p]
    /\ FsChange
    /\ UNCHANGED <<denied, erred>>
    /\ present' = [present EXCEPT ![p] = FALSE]
    /\ disk' = [disk EXCEPT ![p] = Missing]
    /\ removed' = removed \cup {p}
    /\ UNCHANGED <<created, inode, mtime, unticked, modified, data, retargeted,
                   rotatedAt>>

\* The materials each data directory holds: a consistent triple each.
DirContents(d) ==
    IF d = "real_data"
    THEN [f \in Files |-> CASE f = "trust_anchors"   -> "caA"
                             [] f = "end_entity_cert" -> "eeA1"
                             [] f = "private_key"     -> "k1"]
    ELSE [f \in Files |-> CASE f = "trust_anchors"   -> "caB"
                             [] f = "end_entity_cert" -> "eeB2"
                             [] f = "private_key"     -> "k2"]

\* What the watched paths read as while `data` points to d.
ReadThrough(d) ==
    [f \in Files |-> IF present[f] /\ d # "none" THEN DirContents(d)[f] ELSE Missing]

\* The pipeline is at rest: no tick is due or queued and no load or store
\* is under way.
AtRest == pc = "poll" /\ ticks = <<>> /\ ~TickDue

\* The `data` symlink is replaced atomically (rename) by one to directory d.
RetargetData(d) ==
    /\ layout = "double_symlink"
    /\ data \notin {d, "none"}
    /\ FsChange
    /\ UNCHANGED <<denied, erred>>
    /\ data' = d
    /\ retargeted' = TRUE
    /\ rotatedAt' = IF AtRest /\ generation >= 1 /\ server_slot.gen = generation
                    THEN generation ELSE -1
    /\ disk' = ReadThrough(d)
    /\ UNCHANGED <<created, present, inode, mtime, unticked, modified, removed>>

\* remove_dir_all(data_path): the `data` symlink to real_data is removed.
RemoveDataLink ==
    /\ layout = "double_symlink"
    /\ data = "real_data"
    /\ FsChange
    /\ UNCHANGED <<denied, erred>>
    /\ data' = "none"
    /\ rotatedAt' = -1
    /\ disk' = ReadThrough("none")
    /\ UNCHANGED <<created, present, inode, mtime, unticked, modified, removed,
                   retargeted>>

\* symlink(real_data_path_2, data_path): the `data` symlink is created
\* again, pointing to real_data_2.
CreateDataLink ==
    /\ layout = "double_symlink"
    /\ data = "none"
    /\ FsChange
    /\ UNCHANGED <<denied, erred>>
    /\ data' = "real_data_2"
    /\ retargeted' = TRUE
    /\ rotatedAt' = -1
    /\ disk' = ReadThrough("real_data_2")
    /\ UNCHANGED <<created, present, inode, mtime, unticked, modified, removed>>

\* The permissions of a watched file are taken away: stat and open fail.
DenyPath(p) ==
    /\ present[p]
    /\ p \notin denied
    /\ FsChange
    /\ denied' = denied \cup {p}
    /\ erred' = TRUE
    /\ disk' = [disk EXCEPT ![p] = Missing]
    /\ UNCHANGED <<created, present, inode, mtime, unticked, modified, removed,
                   data, retargeted, rotatedAt>>

\* The permission error clears.
AllowPath(p) ==
    /\ p \in denied
    /\ FsChange
    /\ denied' = denied \ {p}
    /\ disk' = [disk EXCEPT ![p] = IF present[p] THEN CreatedContents(p) ELSE Missing]
    /\ UNCHANGED <<created, present, inode, mtime, unticked, modified, removed,
                   data, retargeted, rotatedAt, erred>>

\* What is left of the change stream after a backend I/O error: the error
\* is logged and swallowed, the stream goes on.
AfterError_ends(position) == "done"

AfterError(position) == position

\* A backend I/O error (a failed read of the events, a failed stat).
BackendError ==
    /\ WatcherAlive
    /\ erred' = TRUE
    /\ pc' = AfterError(pc)
    /\ UNCHANGED <<settings, disk, dirty, created, ticks, nextTick, loadVars,
                   slotVars, subVars, backend, layout, present, inode, mtime,
                   clock, polled, pending, unticked, modified, overlapped,
                   removed, goneTicks, data, retargeted, rotatedAt, denied,
                   reader, outcome>>

\* The backend emits one tick for everything that changed since the last.
EmitTick ==
    /\ WatcherAlive
    /\ TickDue
    /\ ticks' = Append(ticks, nextTick)
    /\ nextTick' = nextTick + 1
    /\ dirty' = FALSE
    /\ unticked' = {}
    /\ modified' = {}
    /\ removed' = {}
    /\ goneTicks' = IF removed # {} /\ unticked = {} /\ modified = {}
                    THEN goneTicks \cup {nextTick} ELSE goneTicks
    /\ retargeted' = FALSE
    /\ UNCHANGED <<settings, disk, created, pc, loadVars, slotVars, subVars,
                   backend, layout, present, inode, mtime, clock, overlapped, data,
                   rotatedAt, denied, erred, reader, outcome>>

\* Polling: at the interval each path is stat-ed; when a tuple has changed
\* the tuples are remembered and one tick is emitted.
PollTick ==
    /\ backend = "polling"
    /\ EmitTick
    /\ polled' = [p \in Files |-> Stat(p)]
    /\ UNCHANGED pending

\* Notification: an event read is turned into one tick and the watches are
\* registered again; the other events of the same cycle may be coalesced
\* into that tick, or stay for a tick of their own.
NotifyTick ==
    /\ backend = "inotify"
    /\ EmitTick
    /\ pending' \in {0, pending - 1}
    /\ UNCHANGED polled

\* ------------------------------------------------ the background future
\* Every handle of both slots has been dropped.
AllDropped == \A slot \in Slots : watchers[slot] = {}

\* fold polls the change stream: the next tick starts a load attempt
\* (the filter_map closure calls CommonConfig::load_from_disk).
TakeTick_resumed ==
    /\ pc \in {"poll", "done"}
    /\ ticks # <<>>
    /\ cur' = stream_next(ticks)
    /\ ticks' = SelectSeq(ticks, LAMBDA t : t # stream_next(ticks))
    /\ loads' = loads + 1
    /\ ticksAfterDrop' = IF AllDropped THEN ticksAfterDrop + 1 ELSE ticksAfterDrop
    /\ pc' = "load_trust_anchors"
    /\ UNCHANGED <<settings, diskVars, nextTick, trust_anchors, end_entity_cert,
                   config, generation, lastResult, successes, slotVars, subVars>>

TakeTick ==
    /\ pc = "poll"
    /\ ticks # <<>>
    /\ cur' = stream_next(ticks)
    /\ ticks' = SelectSeq(ticks, LAMBDA t : t # stream_next(ticks))
    /\ loads' = loads + 1
    /\ ticksAfterDrop' = IF AllDropped THEN ticksAfterDrop + 1 ELSE ticksAfterDrop
    /\ pc' = "load_trust_anchors"
    /\ UNCHANGED <<settings, diskVars, nextTick, trust_anchors, end_entity_cert,
                   config, generation, lastResult, successes, slotVars, subVars>>

\* The closure of the fold: the stores it makes for one yielded value, in
\* their order.
fold_step_server_first == <<"server_store", "client_store">>

fold_step == <<"client_store", "server_store">>

\* Where the future goes after a store that succeeded: to the next store of
\* the step, or back to polling the stream.
NextStore_skip(store) == "poll"

NextStore(store) == IF fold_step[1] = store THEN fold_step[2] ELSE "poll"

\* The end of a load attempt: stream_changes yields the loaded value to the
\* fold, or logs the error and yields nothing.
LoadEnds(result, bundle) ==
    /\ lastResult' = IF result.ok THEN <<"Ok">> ELSE result.err
    /\ successes' = IF result.ok THEN successes + 1 ELSE successes
    /\ trust_anchors' = {}
    /\ end_entity_cert' = Missing
    /\ IF stream_changes_yields(result)
       THEN /\ pc' = fold_step[1]
            /\ config' = bundle
            /\ generation' = generation + 1
       ELSE /\ pc' = "poll"
            /\ config' = NoBundle
            /\ generation' = generation

\* load_from_disk, first read: the trust anchors file is read, parsed as PEM
\* and each certificate converted to a trust anchor.
LoadTrustAnchors ==
    /\ pc = "load_trust_anchors"
    /\ LET file  == load_file_contents(disk, "trust_anchors")
           certs == IF file.ok THEN pemfile_certs(file.val) ELSE file
           tas   == IF certs.ok THEN cert_der_as_trust_anchor(certs.val) ELSE certs
       IN  IF tas.ok
           THEN /\ trust_anchors' = tas.val
                /\ pc' = "load_end_entity_cert"
                /\ UNCHANGED <<end_entity_cert, config, generation, lastResult,
                               successes>>
           ELSE LoadEnds(tas, <<{}, Missing, Missing>>)
    /\ UNCHANGED <<settings, diskVars, ticks, nextTick, cur, loads, ticksAfterDrop,
                   slotVars, subVars>>

\* load_from_disk, second read: the end-entity certificate file.
LoadEndEntityCert ==
    /\ pc = "load_end_entity_cert"
    /\ LET file == load_file_contents(disk, "end_entity_cert")
       IN  IF file.ok
           THEN /\ end_entity_cert' = file.val
                /\ pc' = "load_private_key"
                /\ UNCHANGED <<trust_anchors, config, generation, lastResult,
                               successes>>
           ELSE LoadEnds(file, <<trust_anchors, Missing, Missing>>)
    /\ UNCHANGED <<settings, diskVars, ticks, nextTick, cur, loads, ticksAfterDrop,
                   slotVars, subVars>>

\* load_from_disk, third read, and CertResolver::new on what the three reads
\* of this attempt returned.
LoadPrivateKey(timeOk) ==
    /\ pc = "load_private_key"
    /\ LET file == load_file_contents(disk, "private_key")
       IN  IF file.ok
           THEN LoadEnds(CertResolver_new(trust_anchors, end_entity_cert,
                                          file.val, timeOk),
                         <<trust_anchors, end_entity_cert, file.val>>)
           ELSE LoadEnds(file, <<trust_anchors, end_entity_cert, Missing>>)
    /\ UNCHANGED <<settings, diskVars, ticks, nextTick, cur, loads, ticksAfterDrop,
                   slotVars, subVars>>

\* The fold step, first store: client_store.store(Some(ClientConfig(..)))?.
\* An error ends the fold, and `then` turns the end into Ok(()).
StoreClient ==
    /\ pc = "client_store"
    /\ IF store_fails(watchers, "client")
       THEN /\ pc' = "done"
            /\ outcome' = Resolved("Err", "client_store")
            /\ UNCHANGED client_slot
       ELSE /\ client_slot' = ClientValue(generation, cur, config)
            /\ pc' = NextStore("client_store")
            /\ UNCHANGED outcome
    /\ UNCHANGED <<settings, disk, dirty, created, fsVars, ticks, nextTick, loadVars,
                   server_slot, subVars>>

\* The fold step, second store: server_store.store(Some(ServerConfig::from(config)))?.
StoreServer ==
    /\ pc = "server_store"
    /\ IF store_fails(watchers, "server")
       THEN /\ pc' = "done"
            /\ outcome' = Resolved("Err", "server_store")
            /\ UNCHANGED server_slot
       ELSE /\ server_slot' = ServerConfig_from(generation, cur, config)
            /\ pc' = NextStore("server_store")
            /\ UNCHANGED outcome
    /\ UNCHANGED <<settings, disk, dirty, created, fsVars, ticks, nextTick, loadVars,
                   client_slot, subVars>>

\* ------------------------------------------------------------ subscribers
Slot(slot) == IF slot = "client" THEN client_slot ELSE server_slot

\* A consumer drops its handle on a slot.
DropWatch(w, slot) ==
    /\ w \in watchers[slot]
    /\ watchers' = [watchers EXCEPT ![slot] = @ \ {w}]
    /\ UNCHANGED <<settings, diskVars, ticks, nextTick, pc, loadVars, slotVars, seen>>

\* Subscriber w1 is notified of a change of one slot and reads it.
Observe(slot) ==
    /\ "w1" \in watchers[slot]
    /\ seen[slot] # Slot(slot)
    /\ seen' = [seen EXCEPT ![slot] = Slot(slot)]
    /\ UNCHANGED <<settings, diskVars, ticks, nextTick, pc, loadVars, slotVars, watchers>>

\* Subscriber w1 reads both slots at one moment.
ObserveBoth ==
    /\ "w1" \in watchers["client"]
    /\ "w1" \in watchers["server"]
    /\ seen # [slot \in Slots |-> Slot(slot)]
    /\ seen' = [slot \in Slots |-> Slot(slot)]
    /\ UNCHANGED <<settings, diskVars, ticks, nextTick, pc, loadVars, slotVars, watchers>>

\* ------------------------------------------------------- specifications
\* Spec: the broadcaster and its subscribers in full. The certificate and its
\* trust anchors are in place and the external writer rotates, corrupts and
\* deletes the private key, so that loads succeed and fail.
Init ==
    /\ settings \in {"some", "none", "no_tls"}
    /\ disk = [f \in Files |-> CASE f = "trust_anchors"   -> "caA"
                                 [] f = "end_entity_cert" -> "eeA1"
                                 [] f = "private_key"     -> Missing]
    /\ InitCommon
    /\ InitFs("polling", "file", FALSE)

Next ==
    \/ \E c \in PrivateKeyContents : WriteFile("private_key", c)
    \/ DeleteFile("private_key")
    \/ WatcherTick
    \/ TakeTick
    \/ LoadTrustAnchors
    \/ LoadEndEntityCert
    \/ \E timeOk \in BOOLEAN : LoadPrivateKey(timeOk)
    \/ StoreClient
    \/ StoreServer
    \/ \E w \in Handles : \E slot \in Slots : DropWatch(w, slot)
    \/ \E slot \in Slots : Observe(slot)
    \/ ObserveBoth

Spec == Init /\ [][Next]_vars

\* SpecDisk: the loader against the external writer in full. Every file
\* starts missing and is created, rewritten with any contents and deleted
\* at any moment, also between the reads of one load attempt; the consumers
\* keep their handles.
InitDisk ==
    /\ settings \in {"some", "none", "no_tls"}
    /\ disk = [f \in Files |-> Missing]
    /\ InitCommon
    /\ InitFs("polling", "file", FALSE)

NextDisk ==
    \/ \E f \in Files : \E c \in Contents(f) : WriteFile(f, c)
    \/ \E f \in Files : DeleteFile(f)
    \/ WatcherTick
    \/ TakeTick
    \/ LoadTrustAnchors
    \/ LoadEndEntityCert
    \/ \E timeOk \in BOOLEAN : LoadPrivateKey(timeOk)
    \/ StoreClient
    \/ StoreServer

SpecDisk == InitDisk /\ [][NextDisk]_vars

\* ================================================================ claims
\* A bundle that passes full validation: the certificate chains to one of
\* the trust anchors and the private key belongs to the certificate.
Validated(b) ==
    /\ Len(b) = 3
    /\ Issuer(b[2]) \in b[1]
    /\ KeyOf(b[3]) = PublicKey(b[2])

LoadPositions == {"load_trust_anchors", "load_end_entity_cert", "load_private_key"}

\* A step that ends a load attempt with an error.
FailedLoadStep ==
    /\ pc \in LoadPositions
    /\ pc' \notin LoadPositions
    /\ lastResult' # <<"Ok">>

\* C1: a slot that holds a present value holds one built from a bundle whose
\* three parts were read in one load attempt and passed the full validation:
\* the key matches the certificate and the certificate chains to an anchor.
C1_PublishedBundleValidated ==
    \A slot \in Slots : Slot(slot).present => Validated(Slot(slot).bundle)

\* C1 witness: the second generation is published from the CA B triple while
\* the disk has already moved on to another private key.
C1_Witness ==
    /\ client_slot.gen = 2
    /\ server_slot.gen = 2
    /\ server_slot.bundle = <<{"B"}, "eeB2", "k2">>
    /\ disk["private_key"] # "k2"

\* C2 (as claimed): a subscriber that reads both slots at one moment obtains
\* two values of the same generation.
C2_PairSameGeneration ==
    [][ObserveBoth => seen'["client"].gen = seen'["server"].gen]_vars

\* C3: a step that ends a load attempt with an error leaves both slots as
\* they were, yields nothing to the fold (so that no store is made and no
\* subscriber is notified) and returns the future to polling for the next tick.
C3_FailedLoadChangesNothing ==
    [][FailedLoadStep =>
          /\ pc' = "poll"
          /\ config' = NoBundle
          /\ generation' = generation
          /\ client_slot' = client_slot
          /\ server_slot' = server_slot
          /\ seen' = seen]_vars

\* C3 witness: after generation 1 was published, a later load failed with
\* InvalidPrivateKey and both slots still hold generation 1.
C3_Witness ==
    /\ lastResult = <<"InvalidPrivateKey">>
    /\ loads >= 2
    /\ pc = "poll"
    /\ client_slot.gen = 1
    /\ server_slot.gen = 1

\* C4 (as claimed): the background future ends only when every subscriber of
\* both slots has been dropped.
C4_EndsOnlyWhenAllDropped ==
    (settings = "some" /\ pc = "done") => AllDropped

\* C5 (as claimed): once the last subscriber of both slots is gone, the
\* background task terminates within a bounded number of ticks, whatever the
\* load outcomes: here, no later than when MaxTicks ticks taken up after the
\* drop have been processed.
C5_TerminatesWithinBoundedTicks ==
    (AllDropped /\ ticksAfterDrop >= MaxTicks /\ pc \notin LoadPositions)
        => pc \in {"done", "client_store", "server_store"}

\* C5 (amended): once every subscriber of both slots is gone, the first
\* store the fold attempts ends the background task; a tick whose load
\* fails attempts no store.
C5_FirstStoreAfterDropEnds ==
    [][(AllDropped /\ pc \in {"client_store", "server_store"} /\ pc' # pc)
          => pc' = "done"]_vars

\* C5 witness: the task has ended after all subscribers were dropped, and a
\* failed tick came before the successful one that ended it.
C5_Witness ==
    /\ settings = "some"
    /\ pc = "done"
    /\ AllDropped
    /\ ticksAfterDrop >= 2
    /\ successes < loads

\* C6: what is stored in a slot follows the order of the ticks: every store
\* replaces the value by one of a later tick and a later generation.
C6_GenerationsMonotone ==
    [][/\ client_slot' # client_slot =>
            /\ client_slot'.tick > client_slot.tick
            /\ client_slot'.gen > client_slot.gen
       /\ server_slot' # server_slot =>
            /\ server_slot'.tick > server_slot.tick
            /\ server_slot'.gen > server_slot.gen]_vars

\* C6 witness: generation 2 is stored in both slots, from the third tick.
C6_Witness ==
    /\ client_slot.gen = 2
    /\ server_slot.gen = 2
    /\ server_slot.tick = 3

\* C7 (as claimed): a subscriber that has observed a published generation
\* next observes the generation published right after it.
C7_NoGaps ==
    [][\A slot \in Slots :
          (seen[slot].present /\ seen'[slot] # seen[slot])
              => seen'[slot].gen = seen[slot].gen + 1]_vars

\* C7 (amended): what a subscriber observes on a slot is monotone, and each
\* observation is the value the slot holds at that moment; generations
\* stored between two observations are not observed.
C7_ObservedMonotone ==
    [][\A slot \in Slots :
          seen'[slot] # seen[slot] =>
              /\ seen'[slot] = Slot(slot)
              /\ seen'[slot].gen > seen[slot].gen
              /\ seen'[slot].tick > seen[slot].tick]_vars

\* C7 witness: the subscriber has observed generation 1 of the server slot,
\* which by now holds generation 3.
C7_Witness ==
    /\ seen["server"].gen = 1
    /\ server_slot.gen = 3
    /\ "w1" \in watchers["server"]

\* C8: a slot that holds a present value holds a present value ever after.
C8_PresentStaysPresent ==
    [][/\ client_slot.present => client_slot'.present
       /\ server_slot.present => server_slot'.present]_vars

\* C8 witness: both slots were stored twice, the private key has been deleted,
\* the last load failed on it, and both slots are present.
C8_Witness ==
    /\ client_slot.present
    /\ server_slot.present
    /\ server_slot.gen = 2
    /\ disk["private_key"] = Missing
    /\ lastResult = <<"Io", "private_key">>

\* C9: both slots are absent as long as no load attempt has succeeded, and as
\* long as one of the three files has never existed.
C9_AbsentUntilFirstSuccess ==
    (successes = 0 \/ created # Files) =>
        (client_slot = Absent /\ server_slot = Absent)

\* C9 witness: all three files have been created, two load attempts have been
\* made, none succeeded, and both slots are absent.
C9_Witness ==
    /\ settings = "some"
    /\ created = Files
    /\ loads >= 2
    /\ successes = 0
    /\ pc = "poll"
    /\ client_slot = Absent
    /\ server_slot = Absent

\* C10: started without settings (or by ServerConfig::no_tls), both slots
\* are absent, no load attempt is made and the background future is complete.
C10_NoSettingsStaysAbsent ==
    settings \in {"none", "no_tls"} =>
        /\ client_slot = Absent
        /\ server_slot = Absent
        /\ loads = 0
        /\ ticks = <<>>
        /\ pc = "done"

\* C10 witness: started without settings, with a consistent triple on disk.
C10_Witness ==
    /\ settings = "none"
    /\ disk["trust_anchors"] = "caA"
    /\ disk["end_entity_cert"] = "eeA1"
    /\ disk["private_key"] = "k1"
    /\ client_slot = Absent
    /\ server_slot = Absent

\* A step that reads the private key file and finds a key that does not
\* belong to the certificate read earlier in the same attempt.
MismatchedKeyStep ==
    /\ pc = "load_private_key"
    /\ pc' # pc
    /\ disk["private_key"] # Missing
    /\ KeyOf(disk["private_key"]) # PublicKey(end_entity_cert)

\* C11 (as claimed): a load attempt whose private key read does not belong to
\* its certificate read fails with InvalidPrivateKey and publishes nothing.
C11_MismatchIsInvalidPrivateKey ==
    [][MismatchedKeyStep =>
          /\ lastResult' = <<"InvalidPrivateKey">>
          /\ pc' = "poll"
          /\ client_slot' = client_slot
          /\ server_slot' = server_slot]_vars

\* C11 (amended): such an attempt fails and publishes nothing, both slots
\* keeping the previous generation; the error is InvalidPrivateKey when the
\* certificate read chains to the trust anchors read, and the earlier error
\* EndEntityCertIsNotValid when it does not (TimeConversionFailed in either
\* case when the clock cannot be converted).
C11_MismatchFailsCleanly ==
    [][MismatchedKeyStep =>
          /\ lastResult' \in
                (IF Issuer(end_entity_cert) \in trust_anchors
                 THEN {<<"InvalidPrivateKey">>, <<"TimeConversionFailed">>}
                 ELSE {<<"EndEntityCertIsNotValid">>, <<"TimeConversionFailed">>})
          /\ pc' = "poll"
          /\ config' = NoBundle
          /\ generation' = generation
          /\ client_slot' = client_slot
          /\ server_slot' = server_slot]_vars

\* C11 witness: generation 1 holds key k1; the writer has replaced the key
\* by k2 while the certificate is still eeA1, the load failed with
\* InvalidPrivateKey and both slots still hold generation 1.
C11_Witness ==
    /\ lastResult = <<"InvalidPrivateKey">>
    /\ pc = "poll"
    /\ disk["private_key"] = "k2"
    /\ disk["end_entity_cert"] = "eeA1"
    /\ client_slot.gen = 1
    /\ server_slot.gen = 1
    /\ server_slot.bundle = <<{"A"}, "eeA1", "k1">>

\* ------------------------------------------------------------- SpecLive
\* SpecLive: the pipeline under fair scheduling. The runtime polls the
\* background future whenever the change stream has an item, so each of its
\* steps is eventually taken once enabled; the watcher eventually reports a
\* pending change. The external writer makes finitely many changes (none
\* after the watcher has emitted MaxTicks ticks), the consumers keep their
\* handles and the wall clock converts.
WriterActive == nextTick <= MaxTicks

LiveWriteFile(f, c) == WriterActive /\ WriteFile(f, c)

LiveDeleteFile(f) == WriterActive /\ DeleteFile(f)

InitLive ==
    /\ settings = "some"
    /\ disk = [f \in Files |-> Missing]
    /\ InitCommon
    /\ InitFs("polling", "file", FALSE)

NextLive ==
    \/ \E f \in Files : \E c \in Contents(f) : LiveWriteFile(f, c)
    \/ \E f \in Files : LiveDeleteFile(f)
    \/ WatcherTick
    \/ TakeTick
    \/ LoadTrustAnchors
    \/ LoadEndEntityCert
    \/ LoadPrivateKey(TRUE)
    \/ StoreClient
    \/ StoreServer

FairPipeline ==
    /\ WF_vars(WatcherTick)
    /\ WF_vars(TakeTick)
    /\ WF_vars(LoadTrustAnchors)
    /\ WF_vars(LoadEndEntityCert)
    /\ WF_vars(LoadPrivateKey(TRUE))
    /\ WF_vars(StoreClient)
    /\ WF_vars(StoreServer)

SpecLive == InitLive /\ [][NextLive]_vars /\ FairPipeline

\* The consistent triples the writer can put on disk.
ConsistentTriples == {<<"caA", "eeA1", "k1">>, <<"caB", "eeB2", "k2">>}

DiskIs(t) == \A i \in 1..3 : disk[paths[i]] = t[i]

\* The bundle a load attempt builds from the triple t.
BundleOf(t) == <<cert_der_as_trust_anchor(pemfile_certs(t[1]).val).val, t[2], t[3]>>

\* Both slots hold the generation built from t by the load of the latest tick.
PublishedLatest(t) ==
    \A slot \in Slots :
        /\ Slot(slot).present
        /\ Slot(slot).bundle = BundleOf(t)
        /\ Slot(slot).tick = nextTick - 1

\* C12: once the files have been rewritten into a consistent triple and stop
\* changing, the generation built from that triple by the load of the tick
\* that follows the last change is eventually published to both slots, and
\* stays there.
C12_RewriteEventuallyPublished ==
    \A t \in ConsistentTriples : (<>[]DiskIs(t)) => (<>[]PublishedLatest(t))

\* C12 witness: after generation 1 from the CA A triple, the files were
\* rewritten into the CA B triple, which is now published as generation 2.
C12_Witness ==
    /\ DiskIs(<<"caB", "eeB2", "k2">>)
    /\ PublishedLatest(<<"caB", "eeB2", "k2">>)
    /\ server_slot.gen = 2
    /\ ~dirty
    /\ pc = "poll"


\* C13: a subscriber dropping its handle affects neither the producer nor
\* another subscriber: whenever the fold is between ticks or has ended, every
\* slot that still has a subscriber holds the latest generation built.
C13_RemainingSubscribersReceive ==
    (settings = "some" /\ pc \in {"poll", "done"})
        => \A slot \in Slots : watchers[slot] # {} => Slot(slot).gen = generation


\* The step that ends a load attempt, and the attempt having read a trust
\* anchors file that holds no usable trust anchor: empty or without a
\* CERTIFICATE block (nothing was collected), an undecodable block, or a
\* certificate that is no trust anchor.
AttemptEnds == pc \in LoadPositions /\ pc' \notin LoadPositions

UnusableTrustAnchorsRead ==
    \/ pc = "load_trust_anchors"
          /\ disk["trust_anchors"] \in {"empty", "badpem", "badta"}
    \/ pc \in {"load_end_entity_cert", "load_private_key"} /\ trust_anchors = {}

\* C14: a load attempt whose trust anchors file is empty, not PEM, without a
\* CERTIFICATE block or with an unparseable certificate fails with
\* FailedToParseTrustAnchors and publishes nothing, whatever the other two
\* files hold.
C14_UnusableTrustAnchorsFailToParse ==
    [][(AttemptEnds /\ UnusableTrustAnchorsRead)
          => /\ pc' = "poll"
             /\ lastResult'[1] = "FailedToParseTrustAnchors"]_vars


\* The file load_from_disk reads at each position of a load attempt.
FileAt(p) ==
    CASE p = "load_trust_anchors"   -> "trust_anchors"
      [] p = "load_end_entity_cert" -> "end_entity_cert"
      [] p = "load_private_key"     -> "private_key"

\* The files the attempt has still to read at position p.
UnreadAt(p) ==
    CASE p = "load_trust_anchors"   -> Files
      [] p = "load_end_entity_cert" -> {"end_entity_cert", "private_key"}
      [] p = "load_private_key"     -> {"private_key"}

\* C15 (as claimed): all three files are read before any parsing, so an
\* attempt that ends while a file it has still to read cannot be read fails
\* with Io(path) for a path that cannot be read, whatever the readable files
\* hold.
C15_UnreadableFileIsIo ==
    [][(AttemptEnds /\ \E f \in UnreadAt(pc) : disk[f] = Missing)
          => \E f \in UnreadAt(pc) :
                 disk[f] = Missing /\ lastResult' = <<"Io", f>>]_vars

\* C15 (amended): the files are read in the order trust anchors, end-entity
\* certificate, private key, and the trust anchors are parsed before the
\* second file is read. A read of a file that cannot be read ends the attempt
\* with Io(path) of that very file and publishes nothing, whatever was read
\* before; no other step ends an attempt with Io.
C15_FailedReadIsIoOfThatFile ==
    [][(pc \in LoadPositions /\ pc' # pc)
          => IF disk[FileAt(pc)] = Missing
             THEN /\ pc' = "poll"
                  /\ lastResult' = <<"Io", FileAt(pc)>>
                  /\ generation' = generation
                  /\ client_slot' = client_slot
                  /\ server_slot' = server_slot
             ELSE AttemptEnds => lastResult'[1] # "Io"]_vars

\* C15 witness: an attempt read valid trust anchors and a certificate file
\* holding junk, and ended with Io(private_key) because the key file is
\* missing.
C15_Witness ==
    /\ pc = "poll"
    /\ lastResult = <<"Io", "private_key">>
    /\ disk["trust_anchors"] = "caA"
    /\ disk["end_entity_cert"] = "junk"
    /\ disk["private_key"] = Missing
    /\ loads = 1


\* C16: the private key is loaded and validated only after the end-entity
\* certificate has been validated: an attempt that read a certificate which
\* does not chain to the trust anchors it read fails with
\* EndEntityCertIsNotValid (a clock that cannot be converted apart), never
\* with an error about the private key file, which it does not touch.
C16_InvalidCertFailsBeforeKey ==
    [][(pc = "load_private_key" /\ pc' # pc
            /\ Issuer(end_entity_cert) \notin trust_anchors)
          => /\ pc' = "poll"
             /\ lastResult' \in {<<"EndEntityCertIsNotValid">>,
                                 <<"TimeConversionFailed">>}]_vars


\* C17: for every published generation, the ClientConfig of the client slot
\* and the ServerConfig of the server slot both carry a reference to the
\* CertResolver built by the load attempt of that generation.
C17_BothCarryTheResolver ==
    \A slot \in Slots :
        Slot(slot).present => Slot(slot).resolver = ResolverOf(Slot(slot).gen)

\* C18: every ServerConfig stored in the server slot permits exactly TLS 1.2
\* and does not require client certificate authentication.
C18_ServerTls12NoClientAuth ==
    server_slot.present
        => /\ server_slot.versions = {"TLSv1_2"}
           /\ server_slot.client_auth = "NoClientAuth"

\* C18 witness: the server slot holds its second generation, built from the
\* CA B triple after the CA A triple.
C18_Witness ==
    /\ server_slot.present
    /\ server_slot.gen = 2
    /\ server_slot.bundle = <<{"B"}, "eeB2", "k2">>
    /\ server_slot.versions = {"TLSv1_2"}
    /\ pc = "poll"


\* ------------------------------------------------------------ SpecWatch
\* SpecWatch: the watcher observed by itself, as the tests of the change
\* stream do: either backend, each layout, the watched paths all missing or
\* all existing when the watcher starts, and a writer that creates, modifies
\* and removes them. The timer of the polling backend and the event source
\* of the notification backend keep running, so a due tick is emitted.
InitWatch ==
    /\ settings = "some"
    /\ \E exist \in BOOLEAN :
          /\ disk = [f \in Files |-> IF exist THEN CreatedContents(f) ELSE Missing]
          /\ \E b \in Backends : \E l \in Layouts : InitFs(b, l, exist)
    /\ InitCommon

NextWatch ==
    \/ \E p \in Files : CreatePath(p)
    \/ \E p \in Files : ModifyFile(p)
    \/ \E p \in Files : RemovePath(p)
    \/ PollTick
    \/ NotifyTick

SpecWatch == InitWatch /\ [][NextWatch]_vars /\ WF_vars(PollTick) /\ WF_vars(NotifyTick)

WatchTypeOK ==
    /\ backend \in Backends
    /\ layout \in Layouts
    /\ clock \in 0..MaxFsOps
    /\ nextTick \in 1..(KernelEvents * MaxFsOps + 1)
    /\ pending \in 0..KernelEvents
    /\ (backend = "polling" /\ TickDue) => dirty


\* C19 (as claimed): each appearance of a watched path is followed by a tick
\* with either backend: as long as an appearance has not been followed by a
\* tick, the backend has a tick to emit.
C19_EveryAppearanceTicks == \A p \in unticked : TickDue

\* An appearance the backend can see: the notification backend is told of
\* every one; the polling backend compares what it finds at the next poll
\* with what it remembered.
VisibleAppearance(p) ==
    backend = "inotify" \/ (present[p] /\ polled[p] = NoStat)

C19_AppearanceInv ==
    /\ \A p \in unticked : VisibleAppearance(p) => TickDue
    /\ ~overlapped =>
          /\ unticked # {} => TickDue
          /\ nextTick - 1 >= clock - (IF dirty THEN 1 ELSE 0)
          /\ backend = "polling" => nextTick - 1 = clock - (IF dirty THEN 1 ELSE 0)

\* C19 (amended): a path missing at startup is no error. With the
\* notification backend every appearance is eventually followed by a tick;
\* with the polling backend an appearance of a path that was missing at the
\* previous poll is followed by a tick unless the path is removed again
\* before the next poll. Changes separated by waits for the tick get one
\* tick each, with either backend.
C19_LastingAppearanceTicks ==
    /\ []C19_AppearanceInv
    /\ \A p \in Files :
          (p \in unticked /\ (backend = "inotify" \/ polled[p] = NoStat))
              ~> (p \notin unticked \/ (backend = "polling" /\ ~present[p]))

\* C19 witness: polling, double symlink layout, no path at startup; the
\* three paths were created one after the other and each creation got its
\* tick.
C19_Witness ==
    /\ backend = "polling"
    /\ layout = "double_symlink"
    /\ \A p \in Files : present[p]
    /\ clock = 3
    /\ nextTick = 4
    /\ ~overlapped
    /\ ~dirty

\* C20 (as claimed): every in-place modification of the file a watched path
\* resolves to is followed by a tick with either backend: as long as a
\* modification has not been followed by a tick, the backend has a tick to
\* emit.
C20_EveryModificationTicks == \A p \in modified : TickDue

C20_ModificationInv ==
    /\ \A p \in modified :
          (backend = "inotify" \/ present[p] \/ polled[p] # NoStat) => TickDue
    /\ (~overlapped /\ modified # {}) => TickDue

\* C20 (amended): with the notification backend every modification is
\* eventually followed by a tick; with the polling backend it is whenever
\* the path existed at the previous poll or still exists at the next one.
\* A modification made after the previous tick was delivered always yields
\* a further tick.
C20_VisibleModificationTicks ==
    /\ []C20_ModificationInv
    /\ \A p \in Files :
          (p \in modified /\ (backend = "inotify" \/ polled[p] # NoStat))
              ~> (p \notin modified)

\* C20 witness: polling, symlink layout, the three files existed at startup;
\* each was modified through its symlink and each modification got its tick.
C20_Witness ==
    /\ backend = "polling"
    /\ layout = "symlink"
    /\ \A p \in Files : present[p] /\ mtime[p] > 0
    /\ clock = 3
    /\ nextTick = 4
    /\ ~overlapped
    /\ ~dirty


\* ------------------------------------------------------------- SpecGone
\* SpecGone: a watched regular file is removed and created again while the
\* pipeline runs, as test_detects_delete_and_recreate does with the private
\* key: trust anchors of CA A and certificate A1 stay, the private key file
\* exists at startup and is removed and re-created with either key. Either
\* backend watches, and the clock converts.
InitGone ==
    /\ settings = "some"
    /\ \E k \in {"k1", "k2"} :
          disk = [f \in Files |-> CASE f = "trust_anchors"   -> "caA"
                                    [] f = "end_entity_cert" -> "eeA1"
                                    [] f = "private_key"     -> k]
    /\ \E b \in Backends : InitFs(b, "file", TRUE)
    /\ InitCommon

NextGone ==
    \/ RemovePath("private_key")
    \/ \E k \in {"k1", "k2"} : CreatePathWith("private_key", k)
    \/ PollTick
    \/ NotifyTick
    \/ TakeTick
    \/ LoadTrustAnchors
    \/ LoadEndEntityCert
    \/ LoadPrivateKey(TRUE)
    \/ StoreClient
    \/ StoreServer

SpecGone == InitGone /\ [][NextGone]_vars

\* C21 (as claimed): a disappearance of a watched path produces a tick, also
\* when the path is re-created right after the deletion, and the load
\* attempt of the tick emitted for the disappearance fails and publishes
\* nothing.
C21_DisappearanceLoadFails ==
    [][(AttemptEnds /\ cur \in goneTicks)
          => /\ pc' = "poll"
             /\ lastResult' # <<"Ok">>]_vars

\* C21 (amended): the removal of a watched regular file is followed by a
\* tick with the notification backend, and with the polling backend when
\* the file existed at the previous poll, also when the file is created
\* again before the next poll (it is a new file). The load attempt of a tick
\* emitted for a disappearance fails with Io and publishes nothing when the
\* file is still missing as the attempt reads it; a file created again
\* before that is read like any other.
C21_SeenDisappearanceTicks ==
    /\ [](\A p \in removed :
             (backend = "inotify" \/ polled[p] # NoStat) => TickDue)
    /\ [][(pc \in LoadPositions /\ pc' # pc /\ cur \in goneTicks
              /\ disk[FileAt(pc)] = Missing)
             => /\ pc' = "poll"
                /\ lastResult' = <<"Io", FileAt(pc)>>
                /\ generation' = generation
                /\ client_slot' = client_slot
                /\ server_slot' = server_slot]_vars

\* C21 witness: polling; generation 1 is published, the private key was
\* removed, the tick of the disappearance was emitted and its load attempt
\* failed with Io(private_key), leaving generation 1 in both slots.
C21_Witness ==
    /\ backend = "polling"
    /\ cur \in goneTicks
    /\ pc = "poll"
    /\ lastResult = <<"Io", "private_key">>
    /\ ~present["private_key"]
    /\ client_slot.gen = 1
    /\ server_slot.gen = 1


\* --------------------------------------------------------- SpecRetarget
\* SpecRetarget: the double symlink layout of the tests, with the pipeline
\* running. The watched paths are symlinks through `data`, which points to
\* real_data (the CA A triple) at startup; the writer retargets `data`
\* atomically between real_data and real_data_2 (the CA B triple), or
\* removes it and creates it again as test_detects_double_symlink_retargeting
\* does. The backends and every step of the fold are scheduled fairly, and
\* the clock converts.
InitRetarget ==
    /\ settings = "some"
    /\ disk = DirContents("real_data")
    /\ \E b \in Backends : InitFs(b, "double_symlink", TRUE)
    /\ InitCommon

NextRetarget ==
    \/ \E d \in DataDirs : RetargetData(d)
    \/ RemoveDataLink
    \/ CreateDataLink
    \/ PollTick
    \/ NotifyTick
    \/ TakeTick
    \/ LoadTrustAnchors
    \/ LoadEndEntityCert
    \/ LoadPrivateKey(TRUE)
    \/ StoreClient
    \/ StoreServer

FairRetarget ==
    /\ WF_vars(PollTick)
    /\ WF_vars(NotifyTick)
    /\ WF_vars(TakeTick)
    /\ WF_vars(LoadTrustAnchors)
    /\ WF_vars(LoadEndEntityCert)
    /\ WF_vars(LoadPrivateKey(TRUE))
    /\ WF_vars(StoreClient)
    /\ WF_vars(StoreServer)

SpecRetarget == InitRetarget /\ [][NextRetarget]_vars /\ FairRetarget

\* C22 (as claimed): retargeting the intermediate directory symlink to
\* another data directory is followed by a tick with either backend: while
\* a retargeting has not been followed by a tick, the backend has one to
\* emit.
C22_EveryRetargetingTicks == retargeted => TickDue

\* The directory the polling backend found the watched paths in at the
\* previous poll.
PolledDirs == {polled[p][1] : p \in {q \in Files : polled[q] # NoStat}}

\* C22 (amended): a retargeting of the intermediate directory symlink is
\* eventually followed by a tick with the notification backend, and with
\* the polling backend when `data` points to another directory at the next
\* poll than at the previous one, although no leaf path and no file was
\* modified.
C22_VisibleRetargetingTicks ==
    /\ []((retargeted
             /\ (backend = "inotify" \/ (data \in DataDirs /\ data \notin PolledDirs)))
             => TickDue)
    /\ (retargeted /\ backend = "inotify") ~> ~retargeted
    /\ \A d \in DataDirs :
          (retargeted /\ data = d /\ d \notin PolledDirs)
              ~> (~retargeted \/ data # d)

\* C22 witness: polling; `data` was removed and created again pointing to
\* real_data_2, and one tick followed.
C22_Witness ==
    /\ backend = "polling"
    /\ data = "real_data_2"
    /\ clock = 2
    /\ nextTick = 2
    /\ ~retargeted
    /\ PolledDirs = {"real_data_2"}


\* C23 (as claimed): when a generation is published through the double
\* symlink layout and, with the pipeline at rest, `data` is atomically
\* retargeted to the other directory, exactly one new generation is
\* published (not zero once the pipeline is at rest again, never two or
\* more), and it holds the materials of the new directory.
C23_ExactlyOneNewGeneration ==
    rotatedAt >= 0 =>
        /\ generation <= rotatedAt + 1
        /\ AtRest => generation = rotatedAt + 1
        /\ server_slot.gen > rotatedAt
              => server_slot.bundle = BundleOf(<<disk["trust_anchors"],
                                                 disk["end_entity_cert"],
                                                 disk["private_key"]>>)

C23_NewGenerationInv ==
    rotatedAt >= 0 =>
        /\ AtRest => generation >= rotatedAt + 1
        /\ generation <= rotatedAt +
                            (IF backend = "polling" THEN 1 ELSE KernelEvents)
        /\ \A slot \in Slots :
              Slot(slot).gen > rotatedAt
                  => Slot(slot).bundle = BundleOf(<<DirContents(data)["trust_anchors"],
                                                    DirContents(data)["end_entity_cert"],
                                                    DirContents(data)["private_key"]>>)

\* C23 (amended): after such an atomic retargeting at least one new
\* generation is published, and every generation published after it holds
\* the materials of the new directory. Each tick whose load succeeds
\* publishes a generation, so exactly one new generation appears with the
\* polling backend, and with the notification backend when the kernel events
\* of the retargeting are coalesced into one tick; events that get a tick of
\* their own publish the same materials again as a further generation.
C23_AtLeastOneNewGeneration ==
    /\ []C23_NewGenerationInv
    /\ \A n \in 1..(KernelEvents * MaxFsOps) :
          (rotatedAt = n) ~> (rotatedAt # n \/ server_slot.gen > n)

\* C23 witness: polling; generation 1 (CA B) was published, then `data` was
\* retargeted back to real_data with the pipeline at rest, and exactly one
\* new generation holding the CA A triple is in both slots.
C23_Witness ==
    /\ backend = "polling"
    /\ rotatedAt = 1
    /\ AtRest
    /\ generation = 2
    /\ client_slot.gen = 2
    /\ server_slot.gen = 2
    /\ server_slot.bundle = <<{"A"}, "eeA1", "k1">>


\* ----------------------------------------------------------- SpecErrors
\* SpecErrors: the watcher by itself while things go wrong: paths are
\* missing, created and removed, permissions are taken away and given back,
\* and the backend meets I/O errors.
InitErrors ==
    /\ settings = "some"
    /\ \E exist \in BOOLEAN :
          /\ disk = [f \in Files |-> IF exist THEN CreatedContents(f) ELSE Missing]
          /\ \E b \in Backends : InitFs(b, "file", exist)
    /\ InitCommon

NextErrors ==
    \/ \E p \in Files : CreatePath(p)
    \/ \E p \in Files : RemovePath(p)
    \/ \E p \in Files : DenyPath(p)
    \/ \E p \in Files : AllowPath(p)
    \/ BackendError
    \/ PollTick
    \/ NotifyTick

SpecErrors == InitErrors /\ [][NextErrors]_vars /\ WF_vars(PollTick) /\ WF_vars(NotifyTick)

\* C24 (as claimed): the tick stream never terminates and never yields an
\* error while the watcher is alive, whatever errors the backend meets, and
\* after such an error a later change to a watched path still produces a
\* tick: a change made when no other change is outstanding leaves the
\* backend with a tick to emit.
C24_ErrorsSwallowedChangesTick ==
    /\ WatcherAlive
    /\ (erred /\ ~overlapped /\ dirty) => TickDue

C24_ErrorsInv ==
    /\ WatcherAlive
    /\ (erred /\ ~overlapped /\ dirty
          /\ (backend = "inotify" \/ \A p \in removed : polled[p] # NoStat))
          => TickDue

\* C24 (amended): the tick stream never terminates and never yields an
\* error while the watcher is alive; after an error a later change still
\* produces a tick, except that the polling backend, for which a path whose
\* stat fails counts as missing, does not see the removal of such a path.
C24_ErrorsSwallowedVisibleChangesTick ==
    /\ []C24_ErrorsInv
    /\ \A n \in 1..(KernelEvents * MaxFsOps) :
          (erred /\ TickDue /\ nextTick = n) ~> (nextTick > n \/ ~TickDue)

\* C24 witness: polling; a file lost its permissions (tick), got them back
\* (tick), and a later removal of it was ticked as well.
C24_Witness ==
    /\ backend = "polling"
    /\ erred
    /\ denied = {}
    /\ ~present["private_key"]
    /\ present["trust_anchors"]
    /\ clock = 3
    /\ nextTick = 4
    /\ ~overlapped
    /\ ~dirty


\* C25: for every published generation the client slot is stored before the
\* server slot, within one fold step: the server store finds the client slot
\* holding the generation it stores, the client store finds the server slot
\* still behind, and between the two stores the future takes no tick, makes
\* no load attempt and builds no other generation.
C25_ClientStoredBeforeServer ==
    [][/\ (server_slot' # server_slot) =>
              /\ pc = "server_store"
              /\ client_slot.gen = generation
              /\ server_slot'.gen = client_slot.gen
              /\ server_slot'.tick = client_slot.tick
       /\ (client_slot' # client_slot) =>
              /\ pc = "client_store"
              /\ pc' = "server_store"
              /\ client_slot'.gen = generation
              /\ server_slot.gen < generation
              /\ server_slot' = server_slot
       /\ (pc = "server_store") =>
              /\ pc' \in {"server_store", "poll", "done"}
              /\ UNCHANGED <<cur, generation, loads, config, client_slot>>
              /\ pc' = "server_store" => server_slot' = server_slot]_vars

\* C25 witness: between the two stores of generation 2, with a later tick
\* already waiting in the stream.
C25_Witness ==
    /\ pc = "server_store"
    /\ client_slot.gen = 2
    /\ server_slot.gen = 1
    /\ ticks # <<>>


\* ------------------------------------------------------------- SpecRead
\* SpecRead: one call of load_file_contents, step by step: File::open, then
\* the loop around read_to_end. The file is missing or holds up to MaxLen
\* bytes; open fails or not; each read_to_end appends some of the bytes that
\* are left to `result` and then reaches the end of the file, is interrupted,
\* or fails.
MaxLen == 3

MaxInterrupts == 2

Bytes == {0, 1}

FileBytes == UNION {[1..n -> Bytes] : n \in 0..MaxLen}

\* The loop goes round again for ErrorKind::Interrupted only.
retry_never(kind) == FALSE

retry(kind) == kind = "Interrupted"

\* map_err(|e| Error::Io(path.clone(), e))
map_err_Io(path, e) == <<"Io", path, e>>

\* A step of load_file_contents changes nothing else.
ReaderOnly ==
    UNCHANGED <<settings, disk, dirty, ticks, nextTick, pc, loadVars, slotVars,
                subVars, created, backend, layout, present, inode, mtime, clock,
                polled, pending, unticked, modified, overlapped, removed,
                goneTicks, data, retargeted, rotatedAt, denied, erred, outcome>>

CallLoadFileContents(path, exists, file) ==
    /\ ReaderOnly
    /\ reader.position = "idle"
    /\ reader' = [reader EXCEPT !.position = "open", !.path = path,
                                !.exists = exists, !.file = file]

\* let mut file = File::open(path)?;
OpenFile(e) ==
    /\ ReaderOnly
    /\ reader.position = "open"
    /\ LET kind == IF reader.exists THEN e ELSE "NotFound"
       IN  IF kind = "none"
           THEN reader' = [reader EXCEPT !.position = "read"]
           ELSE reader' = [reader EXCEPT !.position = "returned",
                                         !.error_from = "open",
                                         !.last_error = kind,
                                         !.ret = Err(map_err_Io(reader.path, kind))]

\* One turn of the loop: file.read_to_end(&mut result) reads n more bytes
\* into `result` and returns Ok at the end of the file or Err(e) before.
ReadToEnd(n, e) ==
    /\ ReaderOnly
    /\ reader.position = "read"
    /\ n \in 0..(Len(reader.file) - reader.cursor)
    /\ e = "none" => n = Len(reader.file) - reader.cursor
    /\ e = "Interrupted" => Len(reader.interrupted_at) < MaxInterrupts
    /\ LET read == reader.result \o SubSeq(reader.file, reader.cursor + 1, reader.cursor + n)
           advanced == [reader EXCEPT !.result = read, !.cursor = reader.cursor + n,
                                      !.error_from = IF e = "none" THEN "none" ELSE "read",
                                      !.last_error = e]
       IN  IF e = "none"
           THEN reader' = [advanced EXCEPT !.position = "returned", !.ret = Ok(read)]
           ELSE IF retry(e)
           THEN reader' = [advanced EXCEPT
                              !.interrupted_at = Append(@, reader.cursor + n)]
           ELSE reader' = [advanced EXCEPT !.position = "returned",
                                           !.ret = Err(map_err_Io(reader.path, e))]

InitRead ==
    /\ settings = "some"
    /\ disk = [f \in Files |-> Missing]
    /\ InitCommon
    /\ InitFs("polling", "file", FALSE)

NextRead ==
    \/ \E path \in Files : \E file \in FileBytes :
          CallLoadFileContents(path, TRUE, file)
    \/ \E path \in Files : CallLoadFileContents(path, FALSE, <<>>)
    \/ \E e \in {"none", "PermissionDenied", "Interrupted"} : OpenFile(e)
    \/ \E n \in 0..MaxLen : \E e \in {"none", "Interrupted", "Other"} :
          ReadToEnd(n, e)

SpecRead == InitRead /\ [][NextRead]_vars

\* An Interrupted error of read_to_end is the latest error.
ReadInterrupted ==
    reader.error_from = "read" /\ reader.last_error = "Interrupted"

\* C26: load_file_contents returns either the complete contents of the file
\* or Io(path, cause) with the path it was given; an Interrupted error of
\* the read is never returned: the read goes on, with `result` holding
\* exactly the bytes before the cursor; any other error of open or read
\* ends the call at once.
C26_CompleteContentsOrIo ==
    /\ reader.position = "read" =>
          reader.result = SubSeq(reader.file, 1, reader.cursor)
    /\ reader.position = "returned" =>
          IF reader.ret.ok
          THEN reader.exists /\ reader.ret.val = reader.file
          ELSE /\ reader.ret.err = <<"Io", reader.path, reader.last_error>>
               /\ reader.last_error # "none"
               /\ ~ReadInterrupted
    /\ ReadInterrupted => reader.position = "read" /\ reader.ret = NoReturn
    /\ (reader.last_error # "none" /\ ~ReadInterrupted) =>
          reader.position = "returned" /\ ~reader.ret.ok

\* C26 witness: the read of a three-byte file was interrupted after one byte
\* and again after two, and the call returned the three bytes.
C26_Witness ==
    /\ reader.position = "returned"
    /\ reader.path = "private_key"
    /\ reader.interrupted_at = <<1, 2>>
    /\ reader.ret = Ok(<<0, 1, 1>>)


\* The error of the step load_from_disk makes at position p, or <<"none">>
\* when the step succeeds: the read of the file, then what is done with the
\* bytes before the next file is read.
FirstFailureAt(p, timeOk) ==
    IF disk[FileAt(p)] = Missing THEN <<"Io", FileAt(p)>>
    ELSE CASE p = "load_trust_anchors" ->
                 IF disk["trust_anchors"] = "badpem"
                 THEN <<"FailedToParseTrustAnchors", "None">>
                 ELSE IF disk["trust_anchors"] = "badta"
                 THEN <<"FailedToParseTrustAnchors", "Some">>
                 ELSE <<"none">>
           [] p = "load_end_entity_cert" -> <<"none">>
           [] p = "load_private_key" ->
                 IF ~timeOk THEN <<"TimeConversionFailed">>
                 ELSE IF Issuer(end_entity_cert) \notin trust_anchors
                 THEN <<"EndEntityCertIsNotValid">>
                 ELSE IF KeyOf(disk["private_key"]) # PublicKey(end_entity_cert)
                 THEN <<"InvalidPrivateKey">>
                 ELSE <<"none">>

C28_ClientAtMostOneAhead ==
    /\ client_slot.gen \in {server_slot.gen, server_slot.gen + 1}
    /\ client_slot.gen # server_slot.gen =>
          \/ pc = "server_store"
          \/ pc = "done" /\ outcome.cause = "server_store"

\* C28 witness: the fold ended at the server store of generation 2; the
\* client slot stays one generation ahead for good.
C28_Witness ==
    /\ pc = "done"
    /\ outcome.cause = "server_store"
    /\ client_slot.gen = 2
    /\ server_slot.gen = 1
    /\ watchers["client"] # {}


\* ----------------------------------------------------------- SpecFuture
\* SpecFuture: the background future over any change stream, also one that
\* ends or fails: fold resolves with Ok at the end of the stream and with
\* the error of the stream or of its closure otherwise, and `then` maps
\* either to Ok(()).
StreamEnds(fold_result) ==
    /\ pc = "poll"
    /\ pc' = "done"
    /\ outcome' = Resolved(fold_result,
                           IF fold_result = "Ok" THEN "stream_end" ELSE "stream_error")
    /\ UNCHANGED <<settings, disk, dirty, created, fsVars, ticks, nextTick, loadVars,
                   slotVars, subVars>>

NextFuture ==
    \/ Next
    \/ \E fold_result \in {"Ok", "Err"} : StreamEnds(fold_result)

SpecFuture == Init /\ [][NextFuture]_vars

\* C29: the background future never resolves with an error: whether the
\* fold ends at a store that found no subscriber or because the change
\* stream ended or failed, the future resolves with Ok(()), exactly when the
\* fold ends, and once resolved it stays as it is.
C29_ResolvesOkOnce ==
    /\ [](outcome.ready <=> pc = "done")
    /\ [](outcome.ready => outcome.result = "Ok")
    /\ [][outcome.ready => outcome' = outcome]_vars

\* C29 witness: the change stream failed after generation 1 was published,
\* with every subscriber alive, and the future resolved with Ok(()).
C29_Witness ==
    /\ outcome = [ready |-> TRUE, result |-> "Ok", cause |-> "stream_error"]
    /\ server_slot.gen = 1
    /\ \A slot \in Slots : watchers[slot] = Handles


\* C30: once the background future has completed, neither slot changes
\* again: later file changes start no load attempt and publish nothing, and
\* a subscriber that is still alive reads the value stored last before the
\* completion.
C30_NothingAfterCompletion ==
    [][pc = "done" =>
          /\ pc' = "done"
          /\ client_slot' = client_slot
          /\ server_slot' = server_slot
          /\ loads' = loads
          /\ successes' = successes
          /\ generation' = generation
          /\ cur' = cur
          /\ \A slot \in Slots : seen'[slot] \in {seen[slot], Slot(slot)}]_vars

\* C30 witness: the future completed after generation 1; the key file was
\* changed afterwards, and the server subscriber still reads generation 1.
C30_Witness ==
    /\ pc = "done"
    /\ loads = 1
    /\ nextTick = 2
    /\ ~dirty
    /\ server_slot.gen = 1
    /\ server_slot.bundle[3] = "k1"
    /\ disk["private_key"] = "k2"
    /\ "w1" \in watchers["server"]
    /\ seen["server"] = server_slot

====
